---- MODULE Spec2Model ----
(***************************************************************************)
(* A model of nex (src/nex.go), a lexer generator:                         *)
(*   - insertLimits, the per-regex range alphabet          (SpecLim)       *)
(*   - gen: regex -> NFA -> DFA -> transition functions    (SpecGen)       *)
(*   - nextAction, the scanner of the generated lexer      (SpecScan)      *)
(*   - process/parse, the reader of the specification file (SpecParse)     *)
(* Runes are their code points.  Slices are sequences; the code's indices  *)
(* are 0-based and the model keeps them, adding 1 at each subscript.       *)
(***************************************************************************)
EXTENDS Integers, Sequences, FiniteSets, TLC

VARIABLES
    lim,        \* insertLimits: the regex-wide `lim`, flat pairs lo,hi,lo,hi,...
    inserted,   \* history: the set of <<l, r>> given to insertLimits so far
    lastIns,    \* history: <<lim before, l, r>> of the last insertLimits call, or <<>>
    regex,      \* gen: x.regex, the rune string being compiled
    gphase,     \* gen: "off" | "parse" | "short" | "dfa" | "done" | "error"
    gerr,       \* gen: the Error gen panicked with, or "none"
    sing,       \* gen: the set of singleton runes
    nfa,        \* gen: `short`, the reachable NFA nodes, renumbered from 0
    dfa,        \* gen: the numbered DFA nodes, node n at position n + 1
    tab,        \* gen: the map from subset keys to DFA node numbers (-1: dead)
    todo,       \* gen: the worklist of DFA node numbers
    fam,        \* scanner: c.fam.a, the DFAs of the family, rule i at position i + 1
    input,      \* scanner: the runes the reader c.in delivers
    rd,         \* scanner: the number of runes read from c.in so far
    atEOF,      \* scanner: c.atEOF
    buf,        \* scanner: c.buf
    text,       \* scanner: c.text
    n,          \* scanner: c.n
    matchi,     \* nextAction: matchi
    matchn,     \* nextAction: matchn
    state,      \* nextAction: state, DFA i at position i + 1
    pc,         \* nextAction: "idle" between calls, "loop" at the head of the for loop
    ret,        \* the value the last finished call of nextAction returned (-2: none yet)
    toks,       \* history: the tokens returned, [ord, start, len, text]
    polls,      \* history: the number of calls made after a call returned -1
    specIn,     \* process: the runes of the specification file behind `in`
    inpos,      \* process: the number of runes read from `in` so far
    cur,        \* process: r, the rune read last (0 before the first read)
    families,   \* process: families, family f at position f + 1, a sequence of rules
    decls,      \* process: decls, one <<family, rulen>> per declvar call
    usercode,   \* process: usercode
    frames,     \* the active calls of parse, innermost last: [family, rulen]
    pphase,     \* process: "off" | "start" | "loop" | "done" | "error"
    perr        \* process: what process panicked with, or "none"

limVars == <<inserted, lastIns>>
genVars == <<regex, gphase, gerr, sing, nfa, dfa, tab, todo>>
scanVars == <<fam, input, rd, atEOF, buf, text, n, matchi, matchn, state, pc, ret,
              toks, polls>>

parseVars == <<specIn, inpos, cur, families, decls, usercode, frames, pphase, perr>>
vars == <<lim, inserted, lastIns, regex, gphase, gerr, sing, nfa, dfa, tab, todo,
          fam, input, rd, atEOF, buf, text, n, matchi, matchn, state, pc, ret,
          toks, polls,
         specIn, inpos, cur, families, decls, usercode, frames, pphase, perr>>

(***************************************************************************)
(* Bounds of the model.                                                    *)
(***************************************************************************)
MaxRune == 5        \* insertLimits is driven with runes 0..MaxRune
MaxInserts == 3     \* number of insertLimits calls in one behaviour

(***************************************************************************)
(* insertLimits (src/nex.go:176-223).                                      *)
(***************************************************************************)

\* lim = append(lim, 0, 0); copy(lim[i+2:], lim[i:])   (i is a 0-based index)
ShiftIn(l0, i) ==
    [k \in 1..(Len(l0) + 2) |->
        IF k <= i THEN l0[k]
        ELSE IF k <= i + 2 THEN (IF k <= Len(l0) THEN l0[k] ELSE 0)
        ELSE l0[k - 2]]

\* lim[i] = v   (i is a 0-based index)
SetAt(l0, i, v) == [l0 EXCEPT ![i + 1] = v]

\* for i = 0; i < len(lim); i += 2 { if l <= lim[i+1] { break } }
RECURSIVE FindSlot(_, _, _)
FindSlot(l0, l, i) ==
    IF i < Len(l0) /\ ~(l <= l0[i + 2]) THEN FindSlot(l0, l, i + 2) ELSE i

\* The piece left of l when l falls inside piece i: lim[i+1] = l - 1.
SplitLeftHi(l) == l - 1

\* A variant that starts the right piece on r itself, so that it overlaps [l-r].
SplitRightLo_Overlap(r) == r

\* The piece right of r when [l-r] is the front of piece i: lim[i+2] = r + 1.
SplitRightLo(r) == r + 1

RECURSIVE insertLimits(_, _, _)
insertLimits(l0, l, r) ==
    LET i == FindSlot(l0, l, 0) IN
    IF Len(l0) = i \/ r < l0[i + 1]
    THEN SetAt(SetAt(ShiftIn(l0, i), i, l), i + 1, r)
    ELSE IF l < l0[i + 1]
    THEN LET a == ShiftIn(l0, i)
             b == SetAt(a, i + 1, a[i + 1] - 1)
             c == SetAt(b, i, l)
         IN  insertLimits(c, c[i + 1], r)
    ELSE IF l > l0[i + 1]
    THEN LET a == ShiftIn(l0, i)
             b == SetAt(a, i + 1, SplitLeftHi(l))
             c == SetAt(b, i + 2, l)
         IN  insertLimits(c, l, r)
    ELSE IF r = l0[i + 2] THEN l0
    ELSE IF r < l0[i + 2]
    THEN LET a == ShiftIn(l0, i)
             b == SetAt(a, i, l)
             c == SetAt(b, i + 1, r)
         IN  SetAt(c, i + 2, SplitRightLo(r))
    ELSE insertLimits(l0, l0[i + 2] + 1, r)

(***************************************************************************)
(* SpecLim: a sequence of insertLimits(l, r) calls with l < r, as          *)
(* pcharclass makes them (src/nex.go:313-318).                             *)
(***************************************************************************)
GenOff ==
    /\ regex = <<>>
    /\ gphase = "off"
    /\ gerr = "none"
    /\ sing = {}
    /\ nfa = <<>>
    /\ dfa = <<>>
    /\ tab = <<>>
    /\ todo = <<>>

ScanOff ==
    /\ fam = <<>>
    /\ input = <<>>
    /\ rd = 0
    /\ atEOF = FALSE
    /\ buf = <<>>
    /\ text = <<>>
    /\ n = 0
    /\ matchi = 0
    /\ matchn = 0
    /\ state = <<>>
    /\ pc = "off"
    /\ ret = -2
    /\ toks = <<>>
    /\ polls = 0

\* process is not running.
ParseOff ==
    /\ specIn = <<>>
    /\ inpos = 0
    /\ cur = 0
    /\ families = <<>>
    /\ decls = <<>>
    /\ usercode = FALSE
    /\ frames = <<>>
    /\ pphase = "off"
    /\ perr = "none"

LimInit ==
    /\ lim = <<>>
    /\ inserted = {}
    /\ lastIns = <<>>
    /\ GenOff
    /\ ScanOff
    /\ ParseOff

InsertLimitsCall ==
    /\ Cardinality(inserted) < MaxInserts
    /\ \E l \in 0..MaxRune, r \in 0..MaxRune :
        /\ l < r
        /\ lim' = insertLimits(lim, l, r)
        /\ inserted' = inserted \cup {<<l, r>>}
        /\ lastIns' = <<lim, l, r>>
    /\ UNCHANGED <<genVars, scanVars, parseVars>>

LimNext == InsertLimitsCall

SpecLim == LimInit /\ [][LimNext]_vars

(***************************************************************************)
(* Claims about insertLimits.                                              *)
(***************************************************************************)
NPieces(l0) == Len(l0) \div 2
PieceLo(l0, k) == l0[2 * k - 1]
PieceHi(l0, k) == l0[2 * k]
PieceSet(l0, k) == PieceLo(l0, k)..PieceHi(l0, k)
Covered(l0) == UNION {PieceSet(l0, k) : k \in 1..NPieces(l0)}
LimSortedDisjoint(l0) ==
    /\ Len(l0) % 2 = 0
    /\ \A k \in 1..NPieces(l0) : PieceLo(l0, k) <= PieceHi(l0, k)
    /\ \A k \in 1..(NPieces(l0) - 1) : PieceHi(l0, k) < PieceLo(l0, k + 1)

\* C9: after any sequence of insertLimits(l, r) calls with l < r, lim is a
\* list of pairs lo <= hi, sorted ascending and pairwise disjoint; it covers
\* exactly the union of the inserted ranges; every inserted range is an exact
\* union of pieces; inserting a range equal to an existing piece changes nothing.
C9_RangeInsertion ==
    /\ LimSortedDisjoint(lim)
    /\ Covered(lim) = UNION {(p[1])..(p[2]) : p \in inserted}
    /\ \A p \in inserted : \A k \in 1..NPieces(lim) :
          \/ PieceSet(lim, k) \subseteq (p[1])..(p[2])
          \/ PieceSet(lim, k) \cap ((p[1])..(p[2])) = {}
    /\ \A k \in 1..NPieces(lim) :
          PieceLo(lim, k) < PieceHi(lim, k) =>
              insertLimits(lim, PieceLo(lim, k), PieceHi(lim, k)) = lim

\* A call that had to split an existing piece on both sides of an overlap.
C9_Witness ==
    /\ lastIns # <<>>
    /\ NPieces(lim) >= NPieces(lastIns[1]) + 2
    /\ NPieces(lastIns[1]) >= 1

(***************************************************************************)
(* gen, part 1: regex -> NFA (src/nex.go:155-445).                         *)
(***************************************************************************)
kNil == 0
kRune == 1
kClass == 2
kWild == 3

RuneLParen == 40
RuneRParen == 41
RuneStar == 42
RunePlus == 43
RuneDash == 45
RuneDot == 46
RuneQuery == 63
RuneLBkt == 91
RuneBackslash == 92
RuneRBkt == 93
RuneCaret == 94
RuneBar == 124

\* ispunct: membership in "!\"#$%&'()*+,-./:;<=>?@[\\]^_`{|}~"
ispunct(c) == c \in (33..47) \cup (58..64) \cup (91..96) \cup (123..126)

escapes == <<97, 98, 102, 110, 114, 116, 118>>      \* "abfnrtv"
escaped == <<7, 8, 12, 10, 13, 9, 11>>              \* "\a\b\f\n\r\t\v"

escape(c) ==
    IF \E i \in 1..Len(escapes) : escapes[i] = c
    THEN escaped[CHOOSE i \in 1..Len(escapes) : escapes[i] = c]
    ELSE -1

\* inClass(r, lim): lim is a flat list of pairs.
inClass(r, l0) ==
    \E i \in 1..(Len(l0) \div 2) : l0[2 * i - 1] <= r /\ r <= l0[2 * i]

\* The state of the regex parser: the closure variables of gen.
\*   s, pos, n, nlpar, sing, lim as in the source;
\*   e[u + 1] is the edge list of the node created with number u;
\*   err is the value gen panicked with ("none" while it has not).
ParserInit(s) ==
    [s |-> s, pos |-> 0, n |-> 0, e |-> <<>>, sing |-> {}, lim |-> <<>>,
     nlpar |-> 0, err |-> "none"]

At(P) == P.s[P.pos + 1]             \* s[pos]
AtEnd(P) == Len(P.s) = P.pos        \* len(s) == pos
Panic(P, err) == [P EXCEPT !.err = err]
Advance(P) == [P EXCEPT !.pos = @ + 1]

\* newNode: the new node has number P.n.
newNode(P) == [P EXCEPT !.n = @ + 1, !.e = Append(@, <<>>)]

Edge(kind, r, l0, negate, dst) ==
    [kind |-> kind, r |-> r, lim |-> l0, negate |-> negate, dst |-> dst]

newEdge(P, u, ed) == [P EXCEPT !.e[u + 1] = Append(@, ed)]
newWildEdge(P, u, v) == newEdge(P, u, Edge(kWild, 0, <<>>, FALSE, v))
newNilEdge(P, u, v) == newEdge(P, u, Edge(kNil, 0, <<>>, FALSE, v))
newRuneEdge(P, u, v, r) ==
    [newEdge(P, u, Edge(kRune, r, <<>>, FALSE, v)) EXCEPT !.sing = @ \cup {r}]

\* A result of a parsing function: the parser state and the (start, end) pair.
Res(P, start, end) == [p |-> P, start |-> start, end |-> end]

\* maybeEscape: the rune at pos, an escape resolved; pos is left on its last rune.
EscapeAt(Q) ==
    IF AtEnd(Q) THEN [p |-> Panic(Q, "ErrExtraneousBackslash"), c |-> -1]
    ELSE IF ispunct(At(Q)) THEN [p |-> Q, c |-> At(Q)]
    ELSE IF escape(At(Q)) >= 0 THEN [p |-> Q, c |-> escape(At(Q))]
    ELSE [p |-> Panic(Q, "ErrBadBackslash"), c |-> -1]

maybeEscape(P) ==
    IF At(P) = RuneBackslash THEN EscapeAt(Advance(P))
    ELSE [p |-> P, c |-> At(P)]

\* The loop variables of pcharclass: elim is e.lim of the class edge.
\* singletonRange(c): e.lim = append(e.lim, c, c); sing[c] = true
singletonRange(L, c) ==
    [L EXCEPT !.elim = @ \o <<c, c>>, !.p.sing = @ \cup {c}]

\* The body of `case '-'` of pcharclass.
ClassDash(L) ==
    IF L.first THEN singletonRange(L, RuneDash)
    ELSE [L EXCEPT !.justSawDash = TRUE]

\* The body of `default` of pcharclass.
ClassAtom(L, c) ==
    IF L.justSawDash
    THEN IF ~L.leftLive \/ L.left > c
         THEN [L EXCEPT !.p = Panic(@, "ErrBadRange")]
         ELSE [L EXCEPT !.elim = @ \o <<L.left, c>>,
                        !.p.sing = IF L.left = c THEN @ \cup {c} ELSE @,
                        !.p.lim = IF L.left = c THEN @ ELSE insertLimits(@, L.left, c),
                        !.leftLive = FALSE,
                        !.justSawDash = FALSE]
    ELSE [(IF L.leftLive THEN singletonRange(L, L.left) ELSE L)
            EXCEPT !.left = c, !.leftLive = TRUE, !.justSawDash = FALSE]

\* The body of the loop of pcharclass after `c := maybeEscape()` gave m.
ClassBody(L, m) ==
    IF m.p.err # "none" THEN [L EXCEPT !.p = m.p]
    ELSE IF m.c = RuneDash THEN ClassDash([L EXCEPT !.p = m.p])
    ELSE ClassAtom([L EXCEPT !.p = m.p], m.c)

\* for pos < len(s) && s[pos] != ']' { switch c := maybeEscape(); c {...}; first = false; pos++ }
RECURSIVE ClassLoop(_)
ClassNext(L) ==
    IF L.p.err # "none" THEN L
    ELSE ClassLoop([L EXCEPT !.first = FALSE, !.p = Advance(@)])
ClassLoop(L) ==
    IF L.p.pos < Len(L.p.s) /\ At(L.p) # RuneRBkt
    THEN ClassNext(ClassBody(L, maybeEscape(L.p)))
    ELSE L

\* The end of pcharclass: the pending left atom and the pending dash.
ClassLeft(L) == IF L.leftLive THEN singletonRange(L, L.left) ELSE L
ClassTrail(L) == IF L.justSawDash THEN singletonRange(L, RuneDash) ELSE L
ClassEdge(L, start, end, neg) ==
    IF L.p.err # "none" THEN Res(L.p, start, end)
    ELSE Res(newEdge(L.p, start, Edge(kClass, 0, L.elim, neg, end)), start, end)
ClassDone(L, start, end, neg) ==
    IF L.p.err # "none" THEN Res(L.p, start, end)
    ELSE ClassEdge(ClassTrail(ClassLeft(L)), start, end, neg)

\* pcharclass from the state P1 after its two newNode() calls.
ClassStart(P1, start, end, neg) ==
    ClassDone(ClassLoop([p |-> IF neg THEN Advance(P1) ELSE P1, elim |-> <<>>,
                         left |-> 0, leftLive |-> FALSE,
                         justSawDash |-> FALSE, first |-> TRUE]),
              start, end, neg)

pcharclass(P) ==
    ClassStart(newNode(newNode(P)), P.n, P.n + 1,
               Len(P.s) > P.pos /\ At(P) = RuneCaret)

RECURSIVE pre(_), preLoop(_), pcat(_), pcatLoop(_, _, _, _), pclosure(_), pterm(_)

\* The guard of the `for` loop of pre.
PreGuard(P) == P.pos < Len(P.s)

\* pterm after `start, end = pre()` gave T: the closing parenthesis.
GroupEnd(T) ==
    IF T.p.err # "none" THEN T
    ELSE IF AtEnd(T.p) \/ At(T.p) # RuneRParen
    THEN Res(Panic(T.p, "ErrUnmatchedLpar"), -1, -1)
    ELSE Res(Advance(T.p), T.start, T.end)

\* pterm after `start, end = pcharclass()` gave T: the closing bracket.
ClassEnd(T) ==
    IF T.p.err # "none" THEN T
    ELSE IF AtEnd(T.p) \/ At(T.p) # RuneRBkt
    THEN Res(Panic(T.p, "ErrUnmatchedLbkt"), -1, -1)
    ELSE Res(Advance(T.p), T.start, T.end)

\* newRuneEdge(start, end, maybeEscape()) with m the result of maybeEscape.
RuneTerm(m, start, end) ==
    IF m.p.err # "none" THEN Res(m.p, -1, -1)
    ELSE Res(Advance(newRuneEdge(m.p, start, end, m.c)), start, end)

pterm(P) ==
    IF AtEnd(P) \/ At(P) = RuneBar
    THEN Res(newNode(P), P.n, P.n)
    ELSE IF At(P) \in {RuneStar, RunePlus, RuneQuery}
    THEN Res(Panic(P, "ErrBareClosure"), -1, -1)
    ELSE IF At(P) = RuneRParen
    THEN IF P.nlpar = 0 THEN Res(Panic(P, "ErrUnmatchedRpar"), -1, -1)
         ELSE Res(newNode(P), P.n, P.n)
    ELSE IF At(P) = RuneLParen
    THEN GroupEnd(pre(Advance([P EXCEPT !.nlpar = @ + 1])))
    ELSE IF At(P) = RuneDot
    THEN Res(Advance(newWildEdge(newNode(newNode(P)), P.n, P.n + 1)), P.n, P.n + 1)
    ELSE IF At(P) = RuneRBkt
    THEN Res(Panic(P, "ErrUnmatchedRbkt"), -1, -1)
    ELSE IF At(P) = RuneLBkt
    THEN ClassEnd(pcharclass(Advance(P)))
    ELSE RuneTerm(maybeEscape(newNode(newNode(P))), P.n, P.n + 1)

\* newNilEdge(end, start); nend := newNode(); newNilEdge(end, nend)
LoopBack(T) == newNilEdge(newNode(newNilEdge(T.p, T.end, T.start)), T.end, T.p.n)

\* pclosure after `start, end = pterm()` gave T.
ClosureOp(T) ==
    IF T.p.err # "none" \/ T.start = T.end \/ AtEnd(T.p) THEN T
    ELSE IF At(T.p) = RuneStar THEN Res(Advance(LoopBack(T)), T.end, T.p.n)
    ELSE IF At(T.p) = RunePlus THEN Res(Advance(LoopBack(T)), T.start, T.p.n)
    ELSE IF At(T.p) = RuneQuery
    THEN Res(Advance(newNilEdge(T.p, T.start, T.end)), T.start, T.end)
    ELSE T

pclosure(P) == ClosureOp(pterm(P))

\* One round of the `for` loop of pcat after `nstart, nend := pclosure()` gave
\* T; live is `start != nil`.
CatSplice(T, start, end, live) ==
    IF T.p.err # "none" THEN T
    ELSE IF ~live
    THEN (IF T.start = T.end THEN T ELSE pcatLoop(T.p, T.start, T.end, TRUE))
    ELSE IF T.start # T.end
    THEN pcatLoop([T.p EXCEPT !.e[end + 1] = T.p.e[T.start + 1]], start, T.end, TRUE)
    ELSE Res(T.p, start, end)

pcatLoop(P, start, end, live) == CatSplice(pclosure(P), start, end, live)

pcat(P) == pcatLoop(P, -1, -1, FALSE)

\* tmp := newNode(); newNilEdge(tmp, start); newNilEdge(tmp, nstart)
AltStart(T, U) == newNilEdge(newNilEdge(newNode(U.p), U.p.n, T.start), U.p.n, U.start)
\* tmp = newNode(); newNilEdge(end, tmp); newNilEdge(nend, tmp)
AltEnd(P1, T, U) == newNilEdge(newNilEdge(newNode(P1), T.end, P1.n), U.end, P1.n)

\* One round of the loop of pre after `nstart, nend := pcat()` gave U.
AltJoin(T, U) ==
    IF U.p.err # "none" THEN U
    ELSE Res(AltEnd(AltStart(T, U), T, U), U.p.n, U.p.n + 1)

preLoop(T) ==
    IF T.p.err # "none" \/ ~PreGuard(T.p) THEN T
    ELSE IF At(T.p) # RuneBar THEN Res(Panic(T.p, "ErrInternal"), -1, -1)
    ELSE preLoop(AltJoin(T, pcat(Advance(T.p))))

pre(P) == preLoop(pcat(P))

(***************************************************************************)
(* gen, part 2: reachability compaction (src/nex.go:447-469).              *)
(***************************************************************************)
Range(f) == {f[i] : i \in DOMAIN f}
IndexOf(f, x) == CHOOSE i \in DOMAIN f : f[i] = x

\* visit(u): S is `short` as the list of the nodes' parse-time numbers;
\* mark[u] holds exactly for the members of S.
RECURSIVE visit(_, _, _), visitEdges(_, _, _, _)
visit(E, S, u) == visitEdges(E, Append(S, u), E[u + 1], 1)
visitEdges(E, S, es, k) ==
    IF k > Len(es) THEN S
    ELSE visitEdges(E,
                    IF es[k].dst \in Range(S) THEN S ELSE visit(E, S, es[k].dst),
                    es, k + 1)

\* short, with every node's n (and so every e.dst.n) renumbered by newn.
Shortlist(P, start, end) ==
    LET S == visit(P.e, <<>>, start)
        newn(u) == IndexOf(S, u) - 1
    IN  [i \in 1..Len(S) |->
            [e |-> [k \in 1..Len(P.e[S[i] + 1]) |->
                        [P.e[S[i] + 1][k] EXCEPT !.dst = newn(@)]],
             accept |-> S[i] = end]]

(***************************************************************************)
(* gen, part 3: NFA -> DFA (src/nex.go:475-591).  A []bool of length n is  *)
(* the set of its true indices; a key is its string of '0' and '1'.        *)
(***************************************************************************)
RECURSIVE do(_, _, _, _), doEdges(_, _, _, _, _), nilCloseLoop(_, _, _, _)
do(N, st, mark, i) == doEdges(N, st, mark, N[i + 1].e, 1)
doEdges(N, st, mark, es, k) ==
    IF k > Len(es) THEN st
    ELSE IF es[k].kind = kNil /\ es[k].dst \notin mark
    THEN doEdges(N, do(N, st \cup {es[k].dst}, mark, es[k].dst), mark, es, k + 1)
    ELSE doEdges(N, st, mark, es, k + 1)
nilCloseLoop(N, st, mark, i) ==
    IF i >= Len(N) THEN st
    ELSE IF i \in st /\ i \notin mark
    THEN nilCloseLoop(N, do(N, st, mark \cup {i}, i), mark \cup {i}, i + 1)
    ELSE nilCloseLoop(N, st, mark, i + 1)
\* A variant that leaves the set as it is given.
nilClose_None(N, st) == st

nilClose(N, st) == nilCloseLoop(N, st, {}, 0)

Key(N, st) == [i \in 1..Len(N) |-> IF (i - 1) \in st THEN "1" ELSE "0"]

\* A variant that numbers the node of no return 0.
DeadTab_Zero(N) == Key(N, {}) :> 0

\* The node of no return: the all-zero key, n = -1.
DeadTab(N) == Key(N, {}) :> -1

\* A variant that takes the conjunction of the accept flags.
AcceptOf_All(N, st) == \A i \in st : N[i + 1].accept

\* accept = accept || short[i].accept over the members of st
AcceptOf(N, st) == \E i \in st : N[i + 1].accept

\* D = [nodes, tab, todo]: the numbered DFA nodes (dfacount = Len(nodes)),
\* the key table and the worklist.
newDFANode(N, D, st) ==
    LET key == Key(N, st) IN
    IF key \in DOMAIN D.tab
    THEN [d |-> D, res |-> D.tab[key], found |-> TRUE]
    ELSE [d |-> [D EXCEPT !.nodes = Append(@, [n |-> Len(D.nodes),
                                               accept |-> AcceptOf(N, st),
                                               set |-> st, e |-> <<>>]),
                          !.tab = @ @@ (key :> Len(D.nodes))],
          res |-> Len(D.nodes), found |-> FALSE]

get(N, D, states) ==
    LET r == newDFANode(N, D, nilClose(N, states)) IN
    IF ~r.found THEN [d |-> [r.d EXCEPT !.todo = Append(@, r.res)], res |-> r.res]
    ELSE [d |-> r.d, res |-> r.res]

EdgesOf(N, set) == UNION {Range(N[i + 1].e) : i \in set}

SingleStates(N, set, r) ==
    {ed.dst : ed \in {x \in EdgesOf(N, set) :
        \/ x.kind = kRune /\ x.r = r
        \/ x.kind = kWild
        \/ x.kind = kClass /\ x.negate # inClass(r, x.lim)}}

RangeStates(N, set, lo) ==
    {ed.dst : ed \in {x \in EdgesOf(N, set) :
        \/ x.kind = kWild
        \/ x.kind = kClass /\ x.negate # inClass(lo, x.lim)}}

WildStates(N, set) ==
    {ed.dst : ed \in {x \in EdgesOf(N, set) :
        \/ x.kind = kWild
        \/ x.kind = kClass /\ x.negate}}

\* newEdge(v, get(states)) on DFA node v
AddDFAEdge(N, D, v, states, kind, r, l0) ==
    LET g == get(N, D, states) IN
    [g.d EXCEPT !.nodes[v + 1].e = Append(@, Edge(kind, r, l0, FALSE, g.res))]

RECURSIVE StepSingles(_, _, _, _, _), StepRanges(_, _, _, _, _)
\* for r, _ := range sing {...}: order is the order the map yields its keys in.
StepSingles(N, D, v, order, k) ==
    IF k > Len(order) THEN D
    ELSE StepSingles(N,
            AddDFAEdge(N, D, v, SingleStates(N, D.nodes[v + 1].set, order[k]),
                       kRune, order[k], <<>>),
            v, order, k + 1)

\* for j := 0; j < len(lim); j += 2 {...}
StepRanges(N, D, v, l0, j) ==
    IF j >= Len(l0) THEN D
    ELSE StepRanges(N,
            AddDFAEdge(N, D, v, RangeStates(N, D.nodes[v + 1].set, l0[j + 1]),
                       kClass, 0, <<l0[j + 1], l0[j + 2]>>),
            v, l0, j + 2)

\* A variant that leaves out the wild edge when it would lead to the dead node.
StepWild_SkipDead(N, D, v) ==
    IF WildStates(N, D.nodes[v + 1].set) = {} THEN D
    ELSE AddDFAEdge(N, D, v, WildStates(N, D.nodes[v + 1].set), kWild, 0, <<>>)

StepWild(N, D, v) ==
    AddDFAEdge(N, D, v, WildStates(N, D.nodes[v + 1].set), kWild, 0, <<>>)

\* One iteration of `for len(todo) > 0`.
Determinize(N, D, l0, order) ==
    LET v == D.todo[Len(D.todo)]
        D0 == [D EXCEPT !.todo = SubSeq(@, 1, Len(@) - 1)]
    IN  StepWild(N, StepRanges(N, StepSingles(N, D0, v, order, 1), v, l0, 0), v)

\* The orders in which `range sing` may yield the keys of the map.
Orders(S) == {o \in [1..Cardinality(S) -> S] : Range(o) = S}

(***************************************************************************)
(* gen, part 4: DFA -> Go (src/nex.go:597-629): acc[] and fun[].           *)
(***************************************************************************)
FirstWhere(es, Test(_)) ==
    IF \E k \in 1..Len(es) : Test(es[k])
    THEN CHOOSE k \in 1..Len(es) : Test(es[k]) /\ \A j \in 1..(k - 1) : ~Test(es[j])
    ELSE 0

LastWhere(es, Test(_)) ==
    IF \E k \in 1..Len(es) : Test(es[k])
    THEN CHOOSE k \in 1..Len(es) : Test(es[k]) /\ \A j \in (k + 1)..Len(es) : ~Test(es[j])
    ELSE 0

\* fun[v](r): the rune switch, then the range switch, then `return wildDest`.
fun(nodes, v, r) ==
    LET es == nodes[v + 1].e
        IsRuneCase(x) == x.kind = kRune /\ x.r = r
        IsClassCase(x) == x.kind = kClass /\ x.lim[1] <= r /\ r <= x.lim[2]
        IsWild(x) == x.kind = kWild
        kr == FirstWhere(es, IsRuneCase)
        kc == FirstWhere(es, IsClassCase)
        kw == LastWhere(es, IsWild)
    IN  IF kr # 0 THEN es[kr].dst
        ELSE IF kc # 0 THEN es[kc].dst
        ELSE IF kw # 0 THEN es[kw].dst
        ELSE 0

acc(nodes, v) == nodes[v + 1].accept

\* Running the emitted functions from state 0 over w; -1 is a sink.
RECURSIVE RunDFA(_, _, _, _)
RunDFA(nodes, st, w, k) ==
    IF k > Len(w) \/ st = -1 THEN st
    ELSE RunDFA(nodes, fun(nodes, st, w[k]), w, k + 1)

DFAAccepts(nodes, w) ==
    LET st == RunDFA(nodes, 0, w, 1) IN st # -1 /\ acc(nodes, st)

(***************************************************************************)
(* SpecGen: gen on one regex.                                              *)
(***************************************************************************)
MaxFrags == 3       \* a regex is the concatenation of at most MaxFrags fragments

\* The pieces regexes are put together from: runes a and b, the operators,
\* brackets and parentheses alone, a group, and character classes.
Fragments ==
    { <<97>>, <<98>>, <<RuneDot>>, <<RuneStar>>, <<RunePlus>>, <<RuneQuery>>,
      <<RuneBar>>, <<RuneLParen>>, <<RuneRParen>>, <<RuneRBkt>>, <<RuneBackslash>>,
      <<RuneLParen, 97, RuneRParen>>,
      <<RuneLBkt, 98, RuneRBkt>>,
      <<RuneLBkt, 98, RuneDash, 100, RuneRBkt>>,
      <<RuneLBkt, 97, RuneDash, 99, RuneRBkt>>,
      <<RuneLBkt, RuneCaret, 97, RuneRBkt>> }

RECURSIVE Concats(_)
Concats(k) ==
    IF k = 0 THEN {<<>>}
    ELSE LET C == Concats(k - 1) IN C \cup {c \o f : c \in C, f \in Fragments}

Regexes == Concats(MaxFrags)

GenInit ==
    /\ regex \in Regexes
    /\ gphase = "parse"
    /\ gerr = "none"
    /\ sing = {}
    /\ lim = <<>>
    /\ nfa = <<>>
    /\ dfa = <<>>
    /\ tab = <<>>
    /\ todo = <<>>
    /\ inserted = {}
    /\ lastIns = <<>>
    /\ ScanOff
    /\ ParseOff

\* start, end := pre(); end.accept = true; the shortlist; the node of no
\* return; dfastart := get(states) with states[0] = true.
GenParse ==
    /\ gphase = "parse"
    /\ LET T == pre(ParserInit(regex)) IN
       IF T.p.err # "none"
       THEN /\ gphase' = "error"
            /\ gerr' = T.p.err
            /\ UNCHANGED <<sing, lim, nfa, dfa, tab, todo>>
       ELSE LET N == Shortlist(T.p, T.start, T.end)
                g == get(N, [nodes |-> <<>>, tab |-> DeadTab(N), todo |-> <<>>], {0})
            IN  /\ gphase' = "dfa"
                /\ sing' = T.p.sing
                /\ lim' = T.p.lim
                /\ nfa' = N
                /\ dfa' = g.d.nodes
                /\ tab' = g.d.tab
                /\ todo' = g.d.todo
                /\ UNCHANGED gerr
    /\ UNCHANGED <<regex, limVars, scanVars, parseVars>>

GenStep ==
    /\ gphase = "dfa"
    /\ todo # <<>>
    /\ \E order \in Orders(sing) :
          LET D == Determinize(nfa, [nodes |-> dfa, tab |-> tab, todo |-> todo],
                               lim, order)
          IN  /\ dfa' = D.nodes
              /\ tab' = D.tab
              /\ todo' = D.todo
    /\ UNCHANGED <<regex, gphase, gerr, sing, lim, nfa, limVars, scanVars, parseVars>>

\* n = dfacount; acc[] and fun[] are written out.
GenEmit ==
    /\ gphase = "dfa"
    /\ todo = <<>>
    /\ gphase' = "done"
    /\ UNCHANGED <<regex, gerr, sing, lim, nfa, dfa, tab, todo, limVars, scanVars, parseVars>>

GenNext == GenParse \/ GenStep \/ GenEmit

SpecGen == GenInit /\ [][GenNext]_vars


(***************************************************************************)
(* The language of a regex by the grammar of the regex mini-language,      *)
(* computed from the regex text alone, over words of test runes:           *)
(*   re := cat ('|' cat)*      cat := closure*                             *)
(*   closure := term ('*' | '+' | '?')?                                    *)
(*   term := '.' | '(' re ')' | '[' class ']' | atom                       *)
(*   class := '^'? elem*       elem := atom | atom '-' atom | '-'          *)
(* It is what the claims compare the DFA of gen against.                   *)
(***************************************************************************)
MaxWord == 2        \* the DFA is run on every word of at most MaxWord test runes

TestRunes == 97..101

RECURSIVE WordsTo(_)
WordsTo(k) ==
    IF k = 0 THEN {<<>>}
    ELSE LET W == WordsTo(k - 1) IN W \cup {Append(w, x) : w \in W, x \in TestRunes}

Words == WordsTo(MaxWord)

CatL(A, B) == {w \in {u \o v : u \in A, v \in B} : Len(w) <= MaxWord}
RECURSIVE StarTo(_, _)
StarTo(A, k) == IF k = 0 THEN {<<>>} ELSE {<<>>} \cup CatL(A, StarTo(A, k - 1))
StarL(A) == StarTo(A, MaxWord)
RunesL(S) == {<<x>> : x \in S \cap TestRunes}

RefR(ok, pos, lang) == [ok |-> ok, pos |-> pos, lang |-> lang]
RefFail == RefR(FALSE, 0, {})
RefAt(s, pos) == IF pos < Len(s) THEN s[pos + 1] ELSE -1
RefMeta == {RuneDot, RuneLParen, RuneRParen, RuneLBkt, RuneRBkt, RuneStar,
            RunePlus, RuneQuery, RuneBar}

\* atom := escape | literal, at pos: [ok, pos after it, the rune].
RefAtom(s, pos, stop) ==
    IF RefAt(s, pos) = RuneBackslash
    THEN IF ispunct(RefAt(s, pos + 1)) THEN [ok |-> TRUE, pos |-> pos + 2, c |-> RefAt(s, pos + 1)]
         ELSE IF RefAt(s, pos + 1) >= 0 /\ escape(RefAt(s, pos + 1)) >= 0
         THEN [ok |-> TRUE, pos |-> pos + 2, c |-> escape(RefAt(s, pos + 1))]
         ELSE [ok |-> FALSE, pos |-> pos, c |-> -1]
    ELSE IF RefAt(s, pos) = -1 \/ RefAt(s, pos) \in stop
    THEN [ok |-> FALSE, pos |-> pos, c |-> -1]
    ELSE [ok |-> TRUE, pos |-> pos + 1, c |-> RefAt(s, pos)]

RECURSIVE RefElems(_, _, _)
\* atom '-' atom, when a is the left atom and b what follows the dash.
RefRangeOr(s, a, b, set) ==
    IF RefAt(s, a.pos) = RuneDash /\ b.ok
    THEN (IF a.c > b.c THEN RefFail ELSE RefElems(s, b.pos, set \cup (a.c..b.c)))
    ELSE RefElems(s, a.pos, set \cup {a.c})
RefElem(s, a, set) ==
    IF ~a.ok THEN RefFail
    ELSE RefRangeOr(s, a, RefAtom(s, a.pos + 1, {RuneRBkt, RuneDash}), set)
RefElems(s, pos, set) ==
    IF RefAt(s, pos) = -1 THEN RefFail
    ELSE IF RefAt(s, pos) = RuneRBkt THEN RefR(TRUE, pos + 1, set)
    ELSE IF RefAt(s, pos) = RuneDash THEN RefElems(s, pos + 1, set \cup {RuneDash})
    ELSE RefElem(s, RefAtom(s, pos, {RuneRBkt}), set)

RefClassOf(r, neg) ==
    IF ~r.ok THEN RefFail
    ELSE RefR(TRUE, r.pos, {<<x>> : x \in {y \in TestRunes : (y \in r.lang) # neg}})
RefClass(s, pos) ==
    IF RefAt(s, pos) = RuneCaret THEN RefClassOf(RefElems(s, pos + 1, {}), TRUE)
    ELSE RefClassOf(RefElems(s, pos, {}), FALSE)

RECURSIVE RefRe(_, _), RefAlts(_, _), RefCat(_, _, _), RefTerm(_, _)
RefGroup(s, r) ==
    IF r.ok /\ RefAt(s, r.pos) = RuneRParen THEN RefR(TRUE, r.pos + 1, r.lang)
    ELSE RefFail
RefRune(a) == IF a.ok THEN RefR(TRUE, a.pos, RunesL({a.c})) ELSE RefFail
RefTerm(s, pos) ==
    IF RefAt(s, pos) = RuneDot THEN RefR(TRUE, pos + 1, RunesL(TestRunes))
    ELSE IF RefAt(s, pos) = RuneLParen THEN RefGroup(s, RefRe(s, pos + 1))
    ELSE IF RefAt(s, pos) = RuneLBkt THEN RefClass(s, pos + 1)
    ELSE RefRune(RefAtom(s, pos, RefMeta))
RefOp(s, t) ==
    IF ~t.ok THEN RefFail
    ELSE IF RefAt(s, t.pos) = RuneStar THEN RefR(TRUE, t.pos + 1, StarL(t.lang))
    ELSE IF RefAt(s, t.pos) = RunePlus
    THEN RefR(TRUE, t.pos + 1, CatL(t.lang, StarL(t.lang)))
    ELSE IF RefAt(s, t.pos) = RuneQuery
    THEN RefR(TRUE, t.pos + 1, t.lang \cup {<<>>})
    ELSE t
RefCatNext(s, c, lang) ==
    IF ~c.ok THEN RefFail ELSE RefCat(s, c.pos, CatL(lang, c.lang))
RefCat(s, pos, lang) ==
    IF RefAt(s, pos) \in {-1, RuneBar, RuneRParen} THEN RefR(TRUE, pos, lang)
    ELSE RefCatNext(s, RefOp(s, RefTerm(s, pos)), lang)
RefAltNext(s, r, c) ==
    IF ~c.ok THEN RefFail ELSE RefAlts(s, RefR(TRUE, c.pos, r.lang \cup c.lang))
RefAlts(s, r) ==
    IF r.ok /\ RefAt(s, r.pos) = RuneBar
    THEN RefAltNext(s, r, RefCat(s, r.pos + 1, {<<>>}))
    ELSE r
RefRe(s, pos) == RefAlts(s, RefCat(s, pos, {<<>>}))

RefParse(s) == RefRe(s, 0)
RefValid(s) == RefParse(s).ok /\ RefParse(s).pos = Len(s)
RefLang(s) == RefParse(s).lang

DFALang(nodes) == {w \in Words : DFAAccepts(nodes, w)}


(***************************************************************************)
(* Claims about gen.                                                       *)
(***************************************************************************)

\* C1: for every regex R that gen compiles, the DFA accepts exactly L(R):
\* running the emitted transition functions from state 0 over a word w ends in
\* an accepting state iff w is in L(R), with -1 a non-accepting sink.
C1_DFAExact ==
    (gphase = "done" /\ RefValid(regex)) => DFALang(dfa) = RefLang(regex)

\* An unescaped '(' in the regex text that opens a non-empty group.
HasGroup(s) ==
    \E i \in 1..(Len(s) - 1) :
        /\ s[i] = RuneLParen
        /\ s[i + 1] # RuneRParen
        /\ (i = 1 \/ s[i - 1] # RuneBackslash)

RegexErrors ==
    {"ErrExtraneousBackslash", "ErrBadBackslash", "ErrBareClosure",
     "ErrUnmatchedLpar", "ErrUnmatchedRpar", "ErrUnmatchedLbkt",
     "ErrUnmatchedRbkt", "ErrBadRange"}

\* C7: a regex of the grammar that contains a balanced group '(' re ')' is
\* compiled by gen without an error, the group matching what the inner
\* expression matches; the only errors gen raises for a regex are extraneous
\* backslash, bad backslash escape, bare closure, unmatched paren/bracket and
\* bad range.
C7_GroupsCompile ==
    /\ (RefValid(regex) /\ HasGroup(regex)) => gphase # "error"
    /\ (gphase = "done" /\ RefValid(regex) /\ HasGroup(regex)) =>
            DFALang(dfa) = RefLang(regex)
    /\ gphase = "error" => gerr \in RegexErrors

\* The outedges of DFA node es that fun picks for rune r: the rune cases when
\* one names r, else the range cases that contain r, else the wild edges.
Selected(es, r) ==
    LET runeHits == {k \in 1..Len(es) : es[k].kind = kRune /\ es[k].r = r}
        classHits == {k \in 1..Len(es) :
                        es[k].kind = kClass /\ es[k].lim[1] <= r /\ r <= es[k].lim[2]}
        wildHits == {k \in 1..Len(es) : es[k].kind = kWild}
    IN  IF runeHits # {} THEN runeHits
        ELSE IF classHits # {} THEN classHits
        ELSE wildHits

ProbeRunes == TestRunes \cup sing \cup Covered(lim)

KindCount(es, kind) == Cardinality({k \in 1..Len(es) : es[k].kind = kind})

\* C10: every numbered DFA state of the finished construction has exactly
\* one outedge per singleton in sing, one per range in lim and one wildcard
\* edge, and for every rune the singles-then-ranges-then-wild discipline
\* selects exactly one outedge.
C10_AlphabetClosure ==
    gphase = "done" =>
        \A v \in 1..Len(dfa) :
            /\ KindCount(dfa[v].e, kRune) = Cardinality(sing)
            /\ \A r \in sing :
                  Cardinality({k \in 1..Len(dfa[v].e) :
                      dfa[v].e[k].kind = kRune /\ dfa[v].e[k].r = r}) = 1
            /\ KindCount(dfa[v].e, kClass) = NPieces(lim)
            /\ \A j \in 1..NPieces(lim) :
                  Cardinality({k \in 1..Len(dfa[v].e) :
                      /\ dfa[v].e[k].kind = kClass
                      /\ dfa[v].e[k].lim = <<PieceLo(lim, j), PieceHi(lim, j)>>}) = 1
            /\ KindCount(dfa[v].e, kWild) = 1
            /\ \A r \in ProbeRunes : Cardinality(Selected(dfa[v].e, r)) = 1

\* A finished DFA of several states over singletons and split ranges.
C10_Witness ==
    /\ gphase = "done"
    /\ Len(dfa) >= 3
    /\ sing # {}
    /\ NPieces(lim) >= 3


\* C13: every range of lim is wholly inside or wholly outside the rune set
\* of every class edge of the NFA, apart from the runes in sing: a class
\* matches a rune of the range that is no singleton exactly when it matches
\* the low endpoint of the range.
C13_RangesUniform ==
    gphase \in {"dfa", "done"} =>
        \A j \in 1..NPieces(lim) : \A i \in 1..Len(nfa) : \A k \in 1..Len(nfa[i].e) :
            nfa[i].e[k].kind = kClass =>
                \A r \in PieceSet(lim, j) \ sing :
                    inClass(r, nfa[i].e[k].lim) = inClass(PieceLo(lim, j), nfa[i].e[k].lim)

\* C15 as stated: the initial DFA state is never accepting for a non-empty
\* regex that gen compiles.
C15_InitialNeverAccepting ==
    (gphase = "done" /\ regex # <<>>) => ~dfa[1].accept

\* C15, amended: the initial DFA state has index 0 and is the epsilon-closure
\* of NFA node 0, and it is accepting exactly when the language of the regex
\* holds the empty word.
C15_InitialAcceptsIffNullable ==
    (gphase = "done" /\ RefValid(regex)) =>
        /\ dfa[1].n = 0
        /\ dfa[1].set = nilClose(nfa, {0})
        /\ dfa[1].accept <=> (<<>> \in RefLang(regex))

\* A non-empty regex was compiled and its initial DFA state accepts.
C15_Witness ==
    /\ gphase = "done"
    /\ regex # <<>>
    /\ RefValid(regex)
    /\ dfa[1].accept
    /\ Len(dfa) >= 2

\* The set st of NFA nodes is closed under the Nil edges of the NFA.
NilClosed(st) ==
    \A i \in st : \A k \in 1..Len(nfa[i + 1].e) :
        nfa[i + 1].e[k].kind = kNil => nfa[i + 1].e[k].dst \in st

\* C16: the numbered DFA states are exactly 0..dfacount-1 with the start
\* state, which holds NFA node 0, at index 0; the accept flag of each is the
\* disjunction of the accept flags of the NFA nodes in its set; its set is
\* non-empty and closed under Nil edges; no two of them have the same set.
C16_SubsetStates ==
    gphase \in {"dfa", "done"} =>
        /\ Len(dfa) >= 1
        /\ 0 \in dfa[1].set
        /\ \A v \in 1..Len(dfa) :
              /\ dfa[v].n = v - 1
              /\ dfa[v].accept <=> (\E i \in dfa[v].set : nfa[i + 1].accept)
              /\ dfa[v].set # {}
              /\ dfa[v].set \subseteq 0..(Len(nfa) - 1)
              /\ NilClosed(dfa[v].set)
              /\ \A w \in 1..Len(dfa) : dfa[w].set = dfa[v].set => w = v

\* A finished construction with Nil edges in the NFA, a DFA state of several
\* NFA nodes, an accepting and a non-accepting DFA state.
C16_Witness ==
    /\ gphase = "done"
    /\ Len(dfa) >= 3
    /\ \E i \in 1..Len(nfa) : \E k \in 1..Len(nfa[i].e) : nfa[i].e[k].kind = kNil
    /\ \E v \in 1..Len(dfa) : Cardinality(dfa[v].set) >= 2 /\ dfa[v].accept
    /\ \E v \in 1..Len(dfa) : ~dfa[v].accept

\* The NFA nodes that the outedge ed of the DFA state with the set st leads
\* to, before the closure under Nil edges.
Targets(st, ed) ==
    IF ed.kind = kRune THEN SingleStates(nfa, st, ed.r)
    ELSE IF ed.kind = kClass THEN RangeStates(nfa, st, ed.lim[1])
    ELSE WildStates(nfa, st)

\* C17: there is exactly one dead DFA state: it is keyed by the all-zero
\* subset and has index -1, it is not among the numbered states (which alone
\* get an accept flag and outedges) and is never on the worklist; a
\* transition leads to it exactly when its target set is empty, and a
\* transition with a non-empty target set leads to the numbered state of the
\* closure of that set.
C17_OneDeadState ==
    gphase \in {"dfa", "done"} =>
        /\ Key(nfa, {}) \in DOMAIN tab
        /\ \A key \in DOMAIN tab : tab[key] = -1 <=> key = Key(nfa, {})
        /\ \A k \in 1..Len(todo) : todo[k] # -1
        /\ \A v \in 1..Len(dfa) :
              /\ dfa[v].n # -1
              /\ dfa[v].set # {}
              /\ \A k \in 1..Len(dfa[v].e) :
                    /\ dfa[v].e[k].dst = -1 <=> Targets(dfa[v].set, dfa[v].e[k]) = {}
                    /\ dfa[v].e[k].dst # -1 =>
                          /\ dfa[v].e[k].dst \in 0..(Len(dfa) - 1)
                          /\ dfa[dfa[v].e[k].dst + 1].set # {}

\* A finished construction with transitions into the dead state and
\* transitions into numbered states.
C17_Witness ==
    /\ gphase = "done"
    /\ Len(dfa) >= 2
    /\ \E v \in 1..Len(dfa) : \E k \in 1..Len(dfa[v].e) : dfa[v].e[k].dst = -1
    /\ \E v \in 1..Len(dfa) : \E k \in 1..Len(dfa[v].e) : dfa[v].e[k].dst # -1

(***************************************************************************)
(* SpecClass: gen on one character class [body], the body made of the      *)
(* runes a, c, '-' and '\'.                                                *)
(***************************************************************************)
MaxClass == 4       \* the body of the class is at most MaxClass runes long

ClassRunes == {97, 99, RuneDash, RuneBackslash}

RECURSIVE Bodies(_)
Bodies(k) ==
    IF k = 0 THEN {<<>>}
    ELSE LET B == Bodies(k - 1) IN B \cup {Append(b, x) : b \in B, x \in ClassRunes}

ClassRegexes == {<<RuneLBkt>> \o b \o <<RuneRBkt>> : b \in Bodies(MaxClass)}

ClassInit ==
    /\ regex \in ClassRegexes
    /\ gphase = "parse"
    /\ gerr = "none"
    /\ sing = {}
    /\ lim = <<>>
    /\ nfa = <<>>
    /\ dfa = <<>>
    /\ tab = <<>>
    /\ todo = <<>>
    /\ inserted = {}
    /\ lastIns = <<>>
    /\ ScanOff
    /\ ParseOff

SpecClass == ClassInit /\ [][GenNext]_vars

\* The regex has a backslash followed by '-' that is not itself escaped.
RECURSIVE EscapedDashFrom(_, _)
EscapedDashFrom(s, k) ==
    IF k + 1 > Len(s) THEN FALSE
    ELSE IF s[k] = RuneBackslash
    THEN (s[k + 1] = RuneDash \/ EscapedDashFrom(s, k + 2))
    ELSE EscapedDashFrom(s, k + 1)

\* The runes the claims probe a class with.
ClassProbe == 96..100 \cup {RuneDash, RuneBackslash}

\* The class by the grammar: elem := atom | atom '-' atom | '-', an escape
\* being an atom.
RefClassRunes(s) == RefElems(s, 1, {}).lang \cap ClassProbe
RefClassOK(s) == RefElems(s, 1, {}).ok /\ RefElems(s, 1, {}).pos = Len(s)

\* The runes the class edge of the NFA of a compiled class matches.
EdgeClassRunes == {r \in ClassProbe : inClass(r, nfa[1].e[1].lim)}

\* C21: in a class an escaped dash is an atom for the rune '-': the class
\* with an escaped dash compiles whenever it is well-formed by the grammar
\* and matches the runes the grammar gives it, '-' among them; an unescaped
\* '-' between two atoms forms a range, and a range with left > right is the
\* bad-range error.
C21_EscapedDash ==
    /\ (EscapedDashFrom(regex, 2) /\ RefClassOK(regex)) =>
          /\ gphase # "error"
          /\ gphase \in {"dfa", "done"} =>
                /\ RuneDash \in EdgeClassRunes
                /\ EdgeClassRunes = RefClassRunes(regex)
    /\ regex = <<RuneLBkt, 97, RuneDash, 99, RuneRBkt>> =>
          /\ gphase # "error"
          /\ gphase \in {"dfa", "done"} => EdgeClassRunes = 97..99
    /\ regex = <<RuneLBkt, 99, RuneDash, 97, RuneRBkt>> =>
          /\ gphase \in {"parse", "error"}
          /\ gphase = "error" => gerr = "ErrBadRange"

(***************************************************************************)
(* gen as one function: the DFA nodes of a regex, for the families the     *)
(* scanner runs on.  `range sing` yields the keys in some order; the       *)
(* tables differ by the order only in the numbering of the states.         *)
(***************************************************************************)
RECURSIVE Worklist(_, _, _, _)
Worklist(N, D, l0, order) ==
    IF D.todo = <<>> THEN D.nodes
    ELSE Worklist(N, Determinize(N, D, l0, order), l0, order)

CompileFrom(T, N) ==
    Worklist(N, get(N, [nodes |-> <<>>, tab |-> DeadTab(N), todo |-> <<>>], {0}).d,
             T.p.lim, CHOOSE o \in Orders(T.p.sing) : TRUE)
CompileNFA(T) == CompileFrom(T, Shortlist(T.p, T.start, T.end))
Compile(s) == CompileNFA(pre(ParserInit(s)))

(***************************************************************************)
(* nextAction, the scanner of the generated lexer (src/nex.go:869-941).    *)
(***************************************************************************)
MaxInput == 4       \* the reader delivers at most MaxInput runes
MaxPolls == 2       \* calls made after a call returned -1

\* The regexes of the rules: a, ab, abc, a*, [a-b]+, b
ScanRegexes ==
    { <<97>>, <<97, 98>>, <<97, 98, 99>>, <<97, RuneStar>>,
      <<RuneLBkt, 97, RuneDash, 98, RuneRBkt, RunePlus>>, <<98>> }

\* The families: every list of one or two of the rules, and three of three.
ScanFamilies ==
    {<<x>> : x \in ScanRegexes} \cup {<<x, y>> : x \in ScanRegexes, y \in ScanRegexes}
    \cup { << <<97, 98, 99>>, <<97, 98>>, <<RuneLBkt, 97, RuneDash, 98, RuneRBkt, RunePlus>> >>,
           << <<98>>, <<RuneLBkt, 97, RuneDash, 98, RuneRBkt, RunePlus>>, <<97, 98>> >>,
           << <<97, 98, 99>>, <<97>>, <<98>> >> }

ScanRunes == 97..99

RECURSIVE InputsTo(_)
InputsTo(k) ==
    IF k = 0 THEN {<<>>}
    ELSE LET W == InputsTo(k - 1) IN W \cup {Append(w, x) : w \in W, x \in ScanRunes}

\* newFrame: f.in = in; f.fam = a[index]; the other fields are zero.
ScanInit ==
    /\ \E rules \in ScanFamilies : fam = [i \in 1..Len(rules) |-> Compile(rules[i])]
    /\ input \in InputsTo(MaxInput)
    /\ rd = 0
    /\ atEOF = FALSE
    /\ buf = <<>>
    /\ text = <<>>
    /\ n = 0
    /\ matchi = 0
    /\ matchn = 0
    /\ state = <<>>
    /\ pc = "idle"
    /\ ret = -2
    /\ toks = <<>>
    /\ polls = 0
    /\ lim = <<>>
    /\ inserted = {}
    /\ lastIns = <<>>
    /\ GenOff
    /\ ParseOff

\* matchi := 0; matchn := 0; state := make([]int, len(c.fam.a))
NextActionCall ==
    /\ pc = "idle"
    /\ ret = -1 => polls < MaxPolls
    /\ polls' = IF ret = -1 THEN polls + 1 ELSE polls
    /\ matchi' = 0
    /\ matchn' = 0
    /\ state' = [i \in 1..Len(fam) |-> 0]
    /\ pc' = "loop"
    /\ UNCHANGED <<fam, input, rd, atEOF, buf, text, n, ret, toks>>
    /\ UNCHANGED <<lim, limVars, genVars, parseVars>>

\* A variant that clears c.text when it reports the end of the stream.
LoopHeadEOF_ClearText ==
    /\ pc = "loop"
    /\ atEOF
    /\ ret' = -1
    /\ pc' = "idle"
    /\ text' = <<>>
    /\ UNCHANGED <<fam, input, rd, atEOF, buf, n, matchi, matchn, state, toks, polls>>
    /\ UNCHANGED <<lim, limVars, genVars, parseVars>>

\* if c.atEOF { return -1 }
LoopHeadEOF ==
    /\ pc = "loop"
    /\ atEOF
    /\ ret' = -1
    /\ pc' = "idle"
    /\ UNCHANGED <<fam, input, rd, atEOF, buf, text, n, matchi, matchn, state, toks,
                   polls>>
    /\ UNCHANGED <<lim, limVars, genVars, parseVars>>

\* if c.n == len(c.buf) { r, _, err := c.in.ReadRune(); ... }
Reads == n = Len(buf)
ReadEOF == Reads /\ rd = Len(input)
BufRead == IF Reads /\ rd < Len(input) THEN Append(buf, input[rd + 1]) ELSE buf
RdRead == IF Reads /\ rd < Len(input) THEN rd + 1 ELSE rd

\* A variant that keeps the first match and never takes a longer one.
HigherPrecedence_First(a, mn, mi, cn, i) == a /\ mn = 0

\* A variant in which a rule of higher ordinal takes over a match of equal length.
HigherPrecedence_Later(a, mn, mi, cn, i) == a /\ (mn < cn \/ mi < i)

\* x.acc[state[i]] && (matchn < c.n || matchi > i)
HigherPrecedence(a, mn, mi, cn, i) == a /\ (mn < cn \/ mi > i)

\* A variant that records a match one rune longer than the runes fed so far.
MatchLen_After(cn) == cn + 1

\* matchn = c.n
MatchLen(cn) == cn

\* for i, x := range c.fam.a {...} on rune r with c.n already advanced to cn;
\* S = [state, matchi, matchn, jammed].
RECURSIVE RunDFAs(_, _, _, _)
RunOne(S, r, cn, i, next) ==
    IF next = -1 THEN [S EXCEPT !.state[i + 1] = -1]
    ELSE IF HigherPrecedence(acc(fam[i + 1], next), S.matchn, S.matchi, cn, i)
    THEN [S EXCEPT !.state[i + 1] = next, !.jammed = FALSE,
                   !.matchi = i, !.matchn = MatchLen(cn)]
    ELSE [S EXCEPT !.state[i + 1] = next, !.jammed = FALSE]
RunDFAs(S, r, cn, i) ==
    IF i >= Len(fam) THEN S
    ELSE IF S.state[i + 1] = -1 THEN RunDFAs(S, r, cn, i + 1)
    ELSE RunDFAs(RunOne(S, r, cn, i, fun(fam[i + 1], S.state[i + 1], r)), r, cn, i + 1)

\* The loop body down to `if jammed`, when the head did not return:
\* jammed := true; if !c.atEOF { r := c.buf[c.n]; c.n++; for ... }
Stepped ==
    IF ReadEOF
    THEN [state |-> state, matchi |-> matchi, matchn |-> matchn, jammed |-> TRUE]
    ELSE RunDFAs([state |-> state, matchi |-> matchi, matchn |-> matchn,
                  jammed |-> TRUE], BufRead[n + 1], n + 1, 0)

\* A variant that takes a negative matchn for "no match".
NoMatch_Negative(mn) == mn < 0

\* if matchn == 0
NoMatch(mn) == mn = 0

\* if c.atEOF { return -1 }  (jammed, no match)
EmptyInput(eof) == eof

\* A variant that drops one rune, as the skip does.
Rest_One(b, mn) == SubSeq(b, 2, Len(b))

\* c.buf = c.buf[matchn:]
Rest(b, mn) == SubSeq(b, mn + 1, Len(b))

\* Not jammed: the loop goes round with c.n advanced.
LoopAdvance ==
    /\ pc = "loop"
    /\ ~atEOF
    /\ ~Stepped.jammed
    /\ buf' = BufRead
    /\ rd' = RdRead
    /\ n' = n + 1
    /\ state' = Stepped.state
    /\ matchi' = Stepped.matchi
    /\ matchn' = Stepped.matchn
    /\ UNCHANGED <<fam, input, atEOF, text, pc, ret, toks, polls>>
    /\ UNCHANGED <<lim, limVars, genVars, parseVars>>

\* A variant of the skip that throws the buffered lookahead away with the rune.
LoopSkip_DropLookahead ==
    /\ pc = "loop"
    /\ ~atEOF
    /\ Stepped.jammed
    /\ NoMatch(Stepped.matchn)
    /\ ~EmptyInput(ReadEOF)
    /\ n' = 0
    /\ state' = [i \in 1..Len(fam) |-> 0]
    /\ buf' = <<>>
    /\ rd' = RdRead
    /\ matchi' = Stepped.matchi
    /\ matchn' = Stepped.matchn
    /\ UNCHANGED <<fam, input, atEOF, text, pc, ret, toks, polls>>
    /\ UNCHANGED <<lim, limVars, genVars, parseVars>>

\* A variant of the skip that restarts the DFAs without dropping a rune.
LoopSkip_KeepRune ==
    /\ pc = "loop"
    /\ ~atEOF
    /\ Stepped.jammed
    /\ NoMatch(Stepped.matchn)
    /\ ~EmptyInput(ReadEOF)
    /\ n' = 0
    /\ state' = [i \in 1..Len(fam) |-> 0]
    /\ buf' = BufRead
    /\ rd' = RdRead
    /\ matchi' = Stepped.matchi
    /\ matchn' = Stepped.matchn
    /\ UNCHANGED <<fam, input, atEOF, text, pc, ret, toks, polls>>
    /\ UNCHANGED <<lim, limVars, genVars, parseVars>>

\* Jammed, no match, not at EOF: state = make(...); c.buf = c.buf[1:]
LoopSkip ==
    /\ pc = "loop"
    /\ ~atEOF
    /\ Stepped.jammed
    /\ NoMatch(Stepped.matchn)
    /\ ~EmptyInput(ReadEOF)
    /\ n' = 0
    /\ state' = [i \in 1..Len(fam) |-> 0]
    /\ buf' = SubSeq(BufRead, 2, Len(BufRead))
    /\ rd' = RdRead
    /\ matchi' = Stepped.matchi
    /\ matchn' = Stepped.matchn
    /\ UNCHANGED <<fam, input, atEOF, text, pc, ret, toks, polls>>
    /\ UNCHANGED <<lim, limVars, genVars, parseVars>>

\* Jammed, no match, at EOF: return -1
LoopEOF ==
    /\ pc = "loop"
    /\ ~atEOF
    /\ Stepped.jammed
    /\ NoMatch(Stepped.matchn)
    /\ EmptyInput(ReadEOF)
    /\ n' = 0
    /\ atEOF' = ReadEOF
    /\ buf' = BufRead
    /\ rd' = RdRead
    /\ state' = Stepped.state
    /\ matchi' = Stepped.matchi
    /\ matchn' = Stepped.matchn
    /\ ret' = -1
    /\ pc' = "idle"
    /\ UNCHANGED <<fam, input, text, toks, polls>>
    /\ UNCHANGED <<lim, limVars, genVars, parseVars>>

\* Jammed with a match: c.text = string(c.buf[:matchn]); c.buf = c.buf[matchn:];
\* matchn = 0; return matchi
LoopEmit ==
    /\ pc = "loop"
    /\ ~atEOF
    /\ Stepped.jammed
    /\ ~NoMatch(Stepped.matchn)
    /\ n' = 0
    /\ atEOF' = ReadEOF
    /\ rd' = RdRead
    /\ text' = SubSeq(BufRead, 1, Stepped.matchn)
    /\ buf' = Rest(BufRead, Stepped.matchn)
    /\ state' = Stepped.state
    /\ matchi' = Stepped.matchi
    /\ matchn' = 0
    /\ ret' = Stepped.matchi
    /\ pc' = "idle"
    /\ toks' = Append(toks, [ord |-> Stepped.matchi,
                             start |-> RdRead - Len(BufRead),
                             len |-> Stepped.matchn,
                             text |-> SubSeq(BufRead, 1, Stepped.matchn)])
    /\ UNCHANGED <<fam, input, polls>>
    /\ UNCHANGED <<lim, limVars, genVars, parseVars>>

ScanNext ==
    \/ NextActionCall
    \/ LoopHeadEOF
    \/ LoopAdvance
    \/ LoopSkip
    \/ LoopEOF
    \/ LoopEmit

SpecScan == ScanInit /\ [][ScanNext]_vars

MaxLive == 3        \* the inputs of the fair scanner are at most MaxLive runes long

\* The families of the fair scanner: /abc/ /b/, /a*/ /ab/ and /[a-b]+/.
LiveFamilies ==
    { << <<97, 98, 99>>, <<98>> >>,
      << <<97, RuneStar>>, <<97, 98>> >>,
      << <<RuneLBkt, 97, RuneDash, 98, RuneRBkt, RunePlus>> >> }

\* newFrame on one of LiveFamilies and an input of at most MaxLive runes.
LiveInit ==
    /\ \E rules \in LiveFamilies : fam = [i \in 1..Len(rules) |-> Compile(rules[i])]
    /\ input \in InputsTo(MaxLive)
    /\ rd = 0
    /\ atEOF = FALSE
    /\ buf = <<>>
    /\ text = <<>>
    /\ n = 0
    /\ matchi = 0
    /\ matchn = 0
    /\ state = <<>>
    /\ pc = "idle"
    /\ ret = -2
    /\ toks = <<>>
    /\ polls = 0
    /\ lim = <<>>
    /\ inserted = {}
    /\ lastIns = <<>>
    /\ GenOff
    /\ ParseOff

\* The scanner with a caller that keeps polling and a loop that keeps running:
\* a step that is possible is eventually taken.
SpecScanFair == LiveInit /\ [][ScanNext]_vars /\ WF_vars(ScanNext)


(***************************************************************************)
(* process: the reader of the specification file.  One action per          *)
(* iteration of the loop of parse; a nested parse() is a new frame.        *)
(***************************************************************************)
RuneLt == 60
RuneGt == 62
RuneLBrace == 123
RuneRBrace == 125
RuneNewline == 10
\* " \n\t\r"
Blank == {32, 10, 9, 13}

\* A position of the reader: the runes read so far, the rune read last, and
\* whether the last read hit io.EOF.
Rd(p, c, e) == [pos |-> p, r |-> c, eof |-> e]

\* read: true at io.EOF, else the next rune is in r.
read(s, x) ==
    IF x.pos = Len(s) THEN Rd(x.pos, x.r, TRUE) ELSE Rd(x.pos + 1, s[x.pos + 1], FALSE)

RECURSIVE skipwsFrom(_, _)
skipwsFrom(s, x) ==
    IF x.eof THEN x
    ELSE IF x.r \notin Blank THEN x
    ELSE skipwsFrom(s, read(s, x))

\* skipws: reads up to the first rune that is not white space; true at io.EOF.
skipws(s, x) == skipwsFrom(s, read(s, x))

\* What one iteration of the loop of parse comes to.
Panics(e) == [kind |-> "panic", err |-> e]
Block(k, x, re, code) == [kind |-> k, at |-> x, regex |-> re, code |-> code]

RECURSIVE codeLoop(_, _, _, _, _, _)
codeStep(s, x, b, nesting, k, re) ==
    IF x.eof THEN Panics("ErrUnmatchedLBrace")
    ELSE IF x.r = RuneLBrace THEN codeLoop(s, x, Append(b, x.r), nesting + 1, k, re)
    ELSE IF x.r = RuneRBrace /\ nesting = 1 THEN Block(k, x, re, Append(b, x.r))
    ELSE IF x.r = RuneRBrace THEN codeLoop(s, x, Append(b, x.r), nesting - 1, k, re)
    ELSE codeLoop(s, x, Append(b, x.r), nesting, k, re)

codeLoop(s, x, b, nesting, k, re) == codeStep(s, read(s, x), b, nesting, k, re)

\* readCode: the brace-balanced text that starts at the rune read last.
readCode(s, x, k, re) ==
    IF x.r # RuneLBrace THEN Panics("ErrExpectedLBrace")
    ELSE codeLoop(s, x, <<x.r>>, 1, k, re)

\* if skipws() { panic(ErrUnexpectedEOF) }; x.code += readCode()
closeCode(s, x) ==
    IF x.eof THEN Panics("ErrUnexpectedEOF") ELSE readCode(s, x, "close", <<>>)

\* if '<' == r { if skipws() { panic("'<' lacks action") }; nested = true }
nestedCode(s, x, re) ==
    IF x.eof THEN Panics("'<' lacks action") ELSE readCode(s, x, "nested", re)

\* if skipws() { panic("last pattern lacks action") } ... x.code += readCode()
ruleCode(s, x, re) ==
    IF x.eof THEN Panics("last pattern lacks action")
    ELSE IF x.r = RuneLt THEN nestedCode(s, skipws(s, x), re)
    ELSE readCode(s, x, "rule", re)

RECURSIVE regexLoop(_, _, _, _)
regexNext(s, x, delim, re) ==
    IF x.eof THEN Panics("ErrUnexpectedEOF") ELSE regexLoop(s, x, delim, re)

\* The loop that reads the regex up to the closing delimiter.
regexLoop(s, x, delim, re) ==
    IF x.r = delim /\ (Len(re) = 0 \/ re[Len(re)] # RuneBackslash)
    THEN IF re = <<>> THEN Block("usercode", x, re, <<>>)
         ELSE ruleCode(s, skipws(s, x), re)
    ELSE IF x.r = RuneNewline THEN Panics("ErrUnexpectedNewline")
    ELSE regexNext(s, read(s, x), delim, Append(re, x.r))

\* delim := r; if read() { panic(ErrUnexpectedEOF) }
regexStart(s, x, delim) ==
    IF x.eof THEN Panics("ErrUnexpectedEOF") ELSE regexLoop(s, x, delim, <<>>)

\* The body of the loop of parse, after the first skipws.
iterFrom(s, x, family) ==
    IF x.eof THEN Panics("ErrUnexpectedEOF")
    ELSE IF x.r = RuneGt
         THEN IF family = 0 THEN Panics("ErrUnmatchedRAngle")
              ELSE closeCode(s, skipws(s, x))
    ELSE regexStart(s, read(s, x), x.r)

Frame == frames[Len(frames)]
Iter == iterFrom(specIn, skipws(specIn, Rd(inpos, cur, FALSE)), Frame.family)

\* newRule(index), with the fields parse fills in; nest is the family id
\* written into the nested call appended to the code, or -1.
newRule(fams, family, index, re, code, nest) ==
    [fams EXCEPT ![family + 1] =
        Append(@, [index |-> index, regex |-> re, code |-> code, nest |-> nest])]

\* declvar
declvar(d, family, rulen) == Append(d, <<family, rulen>>)

EndCode == <<"// [END]">>

MaxBlocks == 5      \* the specification file is at most MaxBlocks blocks long

\* The pieces the specification files are made of:
\* /a/{{}}   /b/< {}   >{}   //   a newline   /a/
SpecBlocks ==
    { <<47, 97, 47, 123, 123, 125, 125>>,
      <<47, 98, 47, 60, 32, 123, 125>>,
      <<62, 123, 125>>,
      <<47, 47>>,
      <<10>>,
      <<47, 97, 47>> }

RECURSIVE Sources(_, _)
Sources(blocks, k) ==
    IF k = 0 THEN {<<>>}
    ELSE LET shorter == Sources(blocks, k - 1)
         IN  shorter \cup {b \o t : b \in blocks, t \in shorter}

MaxDeep == 7        \* or at most MaxDeep blocks that open and close families

\* The blocks that open a family, close a family and end the rules:
\* /b/< {}   >{}   //
NestBlocks ==
    { <<47, 98, 47, 60, 32, 123, 125>>,
      <<62, 123, 125>>,
      <<47, 47>> }

ParseInit ==
    /\ specIn \in Sources(SpecBlocks, MaxBlocks) \cup Sources(NestBlocks, MaxDeep)
    /\ inpos = 0
    /\ cur = 0
    /\ families = <<>>
    /\ decls = <<>>
    /\ usercode = FALSE
    /\ frames = <<>>
    /\ pphase = "start"
    /\ perr = "none"
    /\ lim = <<>>
    /\ inserted = {}
    /\ lastIns = <<>>
    /\ GenOff
    /\ ScanOff

\* process calls parse(): family := len(families); families = append(families, nil)
ParseCall ==
    /\ pphase = "start"
    /\ families' = <<<<>>>>
    /\ frames' = <<[family |-> 0, rulen |-> 0]>>
    /\ pphase' = "loop"
    /\ UNCHANGED <<specIn, inpos, cur, decls, usercode, perr>>
    /\ UNCHANGED <<lim, limVars, genVars, scanVars>>

\* An iteration that reads a rule without '<': x := newRule(rulen); rulen++
ParseRule ==
    /\ pphase = "loop"
    /\ Iter.kind = "rule"
    /\ families' = newRule(families, Frame.family, Frame.rulen, Iter.regex, Iter.code, -1)
    /\ frames' = [frames EXCEPT ![Len(frames)].rulen = @ + 1]
    /\ inpos' = Iter.at.pos
    /\ cur' = Iter.at.r
    /\ UNCHANGED <<specIn, decls, usercode, pphase, perr>>
    /\ UNCHANGED <<lim, limVars, genVars, scanVars>>

\* A variant that does not count the rule with '<' in the enclosing family.
ParseNested_KeepRulen ==
    /\ pphase = "loop"
    /\ Iter.kind = "nested"
    /\ families' =
          Append(newRule(families, Frame.family, Frame.rulen, Iter.regex, Iter.code,
                         Len(families)),
                 <<>>)
    /\ frames' = Append(frames, [family |-> Len(families), rulen |-> 0])
    /\ inpos' = Iter.at.pos
    /\ cur' = Iter.at.r
    /\ UNCHANGED <<specIn, decls, usercode, pphase, perr>>
    /\ UNCHANGED <<lim, limVars, genVars, scanVars>>

\* A variant that names the family by the depth of the nesting.
ParseNested_DepthId ==
    /\ pphase = "loop"
    /\ Iter.kind = "nested"
    /\ families' =
          Append(newRule(families, Frame.family, Frame.rulen, Iter.regex, Iter.code,
                         Len(frames)),
                 <<>>)
    /\ frames' = Append([frames EXCEPT ![Len(frames)].rulen = @ + 1],
                        [family |-> Len(families), rulen |-> 0])
    /\ inpos' = Iter.at.pos
    /\ cur' = Iter.at.r
    /\ UNCHANGED <<specIn, decls, usercode, pphase, perr>>
    /\ UNCHANGED <<lim, limVars, genVars, scanVars>>

\* An iteration that reads a rule with '<': the nested call names
\* len(families), then parse() opens that family.
ParseNested ==
    /\ pphase = "loop"
    /\ Iter.kind = "nested"
    /\ families' =
          Append(newRule(families, Frame.family, Frame.rulen, Iter.regex, Iter.code,
                         Len(families)),
                 <<>>)
    /\ frames' = Append([frames EXCEPT ![Len(frames)].rulen = @ + 1],
                        [family |-> Len(families), rulen |-> 0])
    /\ inpos' = Iter.at.pos
    /\ cur' = Iter.at.r
    /\ UNCHANGED <<specIn, decls, usercode, pphase, perr>>
    /\ UNCHANGED <<lim, limVars, genVars, scanVars>>

\* A variant that goes on reading rules into the family it has just closed.
ParseClose_NoReturn ==
    /\ pphase = "loop"
    /\ Iter.kind = "close"
    /\ families' = newRule(families, Frame.family, -1, <<>>, Iter.code, -1)
    /\ decls' = declvar(decls, Frame.family, Frame.rulen)
    /\ frames' = frames
    /\ inpos' = Iter.at.pos
    /\ cur' = Iter.at.r
    /\ UNCHANGED <<specIn, usercode, pphase, perr>>
    /\ UNCHANGED <<lim, limVars, genVars, scanVars>>

\* An iteration that reads '>' in a nested family: newRule(-1), declvar, return.
ParseClose ==
    /\ pphase = "loop"
    /\ Iter.kind = "close"
    /\ families' = newRule(families, Frame.family, -1, <<>>, Iter.code, -1)
    /\ decls' = declvar(decls, Frame.family, Frame.rulen)
    /\ frames' = SubSeq(frames, 1, Len(frames) - 1)
    /\ inpos' = Iter.at.pos
    /\ cur' = Iter.at.r
    /\ UNCHANGED <<specIn, usercode, pphase, perr>>
    /\ UNCHANGED <<lim, limVars, genVars, scanVars>>

\* An iteration that reads an empty regex at the top level: usercode = true;
\* break; newRule(-1) with the code "// [END]"; declvar; parse returns.
ParseUserCode ==
    /\ pphase = "loop"
    /\ Iter.kind = "usercode"
    /\ Frame.family = 0
    /\ usercode' = TRUE
    /\ families' = newRule(families, 0, -1, <<>>, EndCode, -1)
    /\ decls' = declvar(decls, 0, Frame.rulen)
    /\ frames' = <<>>
    /\ pphase' = "done"
    /\ inpos' = Iter.at.pos
    /\ cur' = Iter.at.r
    /\ UNCHANGED <<specIn, perr>>
    /\ UNCHANGED <<lim, limVars, genVars, scanVars>>

\* An iteration that reads an empty regex in a nested family:
\* if 0 != family { panic(ErrUnmatchedLAngle) }
ParseUnmatchedLAngle ==
    /\ pphase = "loop"
    /\ Iter.kind = "usercode"
    /\ Frame.family # 0
    /\ usercode' = TRUE
    /\ pphase' = "error"
    /\ perr' = "ErrUnmatchedLAngle"
    /\ inpos' = Iter.at.pos
    /\ cur' = Iter.at.r
    /\ UNCHANGED <<specIn, families, decls, frames>>
    /\ UNCHANGED <<lim, limVars, genVars, scanVars>>

\* An iteration that panics.
ParsePanic ==
    /\ pphase = "loop"
    /\ Iter.kind = "panic"
    /\ pphase' = "error"
    /\ perr' = Iter.err
    /\ UNCHANGED <<specIn, inpos, cur, families, decls, usercode, frames>>
    /\ UNCHANGED <<lim, limVars, genVars, scanVars>>

ParseNext ==
    \/ ParseCall
    \/ ParseRule
    \/ ParseNested
    \/ ParseClose
    \/ ParseUserCode
    \/ ParseUnmatchedLAngle
    \/ ParsePanic

SpecParse == ParseInit /\ [][ParseNext]_vars

(***************************************************************************)
(* Claims about nextAction.                                                *)
(***************************************************************************)
Returned == pc = "idle" /\ ret >= 0
Tok == toks[Len(toks)]
\* The ordinals of the DFAs of the family that accept w.
Accepting(w) == {i \in 0..(Len(fam) - 1) : DFAAccepts(fam[i + 1], w)}
\* The runes removed from the front of buf so far: the offset of the cursor.
Cursor == rd - Len(buf)

\* C2: when nextAction returns a rule ordinal with a text of length L that
\* starts at input offset k, no DFA of the family accepts an input substring
\* that starts at k and is longer than L.
C2_LongestMatch ==
    Returned =>
        \A M \in (Tok.len + 1)..(Len(input) - Tok.start) :
            Accepting(SubSeq(input, Tok.start + 1, Tok.start + M)) = {}

\* A token was returned although a rule matched a shorter prefix first and
\* the scanner had read past the end of the token.
C2_Witness ==
    /\ Returned
    /\ Tok.len >= 2
    /\ Accepting(SubSeq(input, Tok.start + 1, Tok.start + 1)) # {}
    /\ buf # <<>>

\* C3: when nextAction returns ordinal i with a text, i is the smallest
\* ordinal among the DFAs of the family that accept that text.
C3_Precedence ==
    Returned =>
        /\ ret \in Accepting(text)
        /\ \A j \in Accepting(text) : ret <= j

\* Two rules accept the returned text, after a skip earlier in the same call.
C3_Witness ==
    /\ Returned
    /\ Cardinality(Accepting(text)) >= 2
    /\ Len(toks) = 1
    /\ Tok.start >= 1

\* C4: a call that returns a rule ordinal returns a non-empty text and
\* removes at least one rune from the pending input.
C4_Progress ==
    [][(pc = "loop" /\ pc' = "idle" /\ ret' >= 0) =>
            /\ Len(text') >= 1
            /\ (rd' - Len(buf')) >= (rd - Len(buf)) + 1]_vars

\* A token was returned by a family with a DFA whose start state accepts.
C4_Witness ==
    /\ Returned
    /\ \E i \in 1..Len(fam) : acc(fam[i], 0)
    /\ Len(text) >= 1

\* C5: once a call has returned -1, every later call returns -1 and text
\* does not change.
C5_EOFSticky == [][ret = -1 => (ret' = -1 /\ text' = text)]_vars

\* The scanner was polled again after the end of the stream, with tokens
\* returned before and runes still in buf.
C5_Witness ==
    /\ pc = "idle"
    /\ ret = -1
    /\ polls >= 1
    /\ toks # <<>>
    /\ buf # <<>>

\* C6: each returned text is the input at the cursor, buf holds the input
\* from the cursor on, and the returned texts are non-overlapping substrings
\* of the input whose start offsets strictly increase.
C6_InputOrder ==
    /\ pc # "off" => buf = SubSeq(input, Cursor + 1, rd)
    /\ \A k \in 1..Len(toks) :
          /\ toks[k].len = Len(toks[k].text)
          /\ toks[k].text = SubSeq(input, toks[k].start + 1, toks[k].start + toks[k].len)
    /\ \A k \in 1..(Len(toks) - 1) :
          /\ toks[k].start < toks[k + 1].start
          /\ toks[k].start + toks[k].len <= toks[k + 1].start
    /\ Returned => (text = Tok.text /\ Cursor = Tok.start + Tok.len)

\* Two tokens of which the first is longer than one rune, a skip between them.
C6_Witness ==
    /\ Len(toks) >= 2
    /\ toks[1].len >= 2
    /\ toks[2].start > toks[1].start + toks[1].len


\* The reference maximal-munch tokenization of the input by the DFAs of the
\* family: the length of the longest match at offset k (0: none), the token
\* it gives, and the tokens from offset k on.
RefLen(k) ==
    LET Ms == {M \in 1..(Len(input) - k) : Accepting(SubSeq(input, k + 1, k + M)) # {}}
    IN  IF Ms = {} THEN 0 ELSE CHOOSE M \in Ms : \A M2 \in Ms : M2 <= M
RefOrd(w) == CHOOSE i \in Accepting(w) : \A j \in Accepting(w) : i <= j
RefTok(k, M) ==
    [ord |-> RefOrd(SubSeq(input, k + 1, k + M)), start |-> k, len |-> M,
     text |-> SubSeq(input, k + 1, k + M)]
RECURSIVE RefTokens(_)
RefTokens(k) ==
    IF k >= Len(input) THEN <<>>
    ELSE IF RefLen(k) = 0 THEN RefTokens(k + 1)
    ELSE <<RefTok(k, RefLen(k))>> \o RefTokens(k + RefLen(k))

\* C11: the tokens returned so far are a prefix of the reference
\* maximal-munch tokenization of the whole input, and when -1 is returned
\* they are all of it and no rune is left in buf: every rune was part of a
\* returned text or was discarded by the one-rune skip.
C11_MaximalMunch ==
    pc # "off" =>
        /\ Len(toks) <= Len(RefTokens(0))
        /\ toks = SubSeq(RefTokens(0), 1, Len(toks))
        /\ (pc = "idle" /\ ret = -1) => (toks = RefTokens(0) /\ buf = <<>>)

\* C12: the loop head returns -1 only when atEOF holds, n = 0 and buf is
\* empty.
C12_HeadEOFOnlyWhenDrained ==
    [][(pc = "loop" /\ atEOF /\ pc' = "idle" /\ ret' = -1) =>
            (n = 0 /\ buf = <<>>)]_vars

\* The runes offered to the DFAs since they were last reset, the one of this
\* iteration included; whether every DFA is jammed on them; whether a DFA
\* accepted a non-empty prefix of them.
Offered == SubSeq(BufRead, 1, n + 1)
AllJammed == \A i \in 1..Len(fam) : RunDFA(fam[i], 0, Offered, 1) = -1
SomeMatch == \E M \in 1..Len(Offered) : Accepting(SubSeq(Offered, 1, M)) # {}

\* C14: when all DFAs are jammed, nothing matched and the reader is not at the
\* end of the input, the iteration removes exactly the first rune of buf,
\* keeps the rest of buf in order, sets n to 0 and every state[i] to 0, leaves
\* atEOF and text unchanged, returns nothing and goes on scanning.
C14_SkipOnNoMatch ==
    [][(pc = "loop" /\ ~atEOF /\ ~ReadEOF /\ AllJammed /\ ~SomeMatch) =>
            /\ buf' = Tail(BufRead)
            /\ n' = 0
            /\ state' = [i \in 1..Len(fam) |-> 0]
            /\ atEOF' = atEOF
            /\ text' = text
            /\ toks' = toks
            /\ ret' = ret
            /\ pc' = "loop"]_vars

\* A skip has happened with lookahead runes left in buf: the cursor moved
\* although no token was returned.
C14_Witness ==
    /\ pc = "loop"
    /\ n = 0
    /\ toks = <<>>
    /\ Cursor >= 1
    /\ Len(buf) >= 2

\* C22: on every finite input a call of nextAction that is running returns
\* after finitely many iterations, and the calls reach the end-of-stream
\* result -1.
C22_Terminates ==
    /\ (pc = "loop") ~> (pc = "idle")
    /\ <>(pc = "idle" /\ ret = -1)

\* The end of the stream was reported after runes were skipped and a token
\* was returned.
C22_Witness ==
    /\ pc = "idle"
    /\ ret = -1
    /\ toks # <<>>
    /\ toks[1].start >= 1
    /\ rd = Len(input)

\* The values state[i] may take: -1 (jammed) or the number of a state of DFA i.
StateOK(st) ==
    /\ Len(st) = Len(fam)
    /\ \A i \in 1..Len(st) : st[i] = -1 \/ st[i] \in 0..(Len(fam[i]) - 1)

\* C23: in every state of the scanner 0 <= n <= len(buf) and matchn <= n;
\* the rune buf[n] read when atEOF is false exists, buf[1:] on a skip and
\* buf[:matchn] on an emit are within buf, and every state[i], before and
\* after the DFAs have stepped, is -1 or the number of a state of DFA i.
C23_IndicesInRange ==
    pc \in {"idle", "loop"} =>
        /\ 0 <= n /\ n <= Len(buf)
        /\ 0 <= matchn /\ matchn <= n
        /\ pc = "loop" => StateOK(state)
        /\ (pc = "loop" /\ ~atEOF /\ ~ReadEOF) =>
                /\ n + 1 <= Len(BufRead)
                /\ StateOK(Stepped.state)
                /\ Stepped.matchn <= n + 1
                /\ Stepped.jammed => Len(BufRead) >= 1
                /\ Stepped.jammed => Stepped.matchn <= Len(BufRead)
        /\ (pc = "loop" /\ ~atEOF /\ ReadEOF) => Stepped.matchn <= Len(BufRead)

\* After a skip the scanner has fed at least two runes to DFAs of which one
\* is jammed and one is still running past a match shorter than the runes fed.
C23_Witness ==
    /\ pc = "loop"
    /\ Cursor >= 1
    /\ \E i \in 1..Len(state) : state[i] = -1
    /\ \E j \in 1..Len(state) : state[j] >= 1
    /\ 1 <= matchn /\ matchn < n
    /\ n <= Len(buf)

(***************************************************************************)
(* Claims about process.                                                   *)
(***************************************************************************)
\* Specification files made only of the rule block /a/{{}} and newlines.
RuleBlock == <<47, 97, 47, 123, 123, 125, 125>>
RuleFiles == Sources({RuleBlock, <<10>>}, MaxBlocks)
RECURSIVE CountRules(_)
CountRules(s) ==
    IF Len(s) < Len(RuleBlock) THEN 0
    ELSE IF SubSeq(s, 1, Len(RuleBlock)) = RuleBlock
         THEN 1 + CountRules(SubSeq(s, Len(RuleBlock) + 1, Len(s)))
    ELSE CountRules(SubSeq(s, 2, Len(s)))

\* C8: a specification that consists only of well-formed rule blocks and then
\* ends, with no empty-regex marker, is parsed without error, and its rules
\* are the rule list of family 0.
C8_TrailingCodeOptional ==
    (specIn \in RuleFiles /\ CountRules(specIn) >= 1) =>
        /\ pphase # "error"
        /\ pphase = "done" =>
              /\ Len(families) = 1
              /\ \A i \in 1..CountRules(specIn) :
                    /\ families[1][i].index = i - 1
                    /\ families[1][i].regex = <<97>>

\* The regexes of the rule blocks of a specification file in source order,
\* read off the text: a delimiter, one rune, the delimiter again.
RECURSIVE SourceRegexes(_, _)
SourceRegexes(s, k) ==
    IF k + 1 > Len(s) THEN <<>>
    ELSE IF s[k] = 47 /\ s[k + 1] = 47 THEN <<>>
    ELSE IF k + 2 <= Len(s) /\ s[k] = 47 /\ s[k + 2] = 47
    THEN <<(<<s[k + 1]>>)>> \o SourceRegexes(s, k + 3)
    ELSE SourceRegexes(s, k + 1)

\* The regexes of the rules of family f and of the families nested in it, a
\* nested family right after the rule that opens it.
RECURSIVE FamilyRegexes(_, _)
FamilyRegexes(f, k) ==
    IF k > Len(families[f + 1]) THEN <<>>
    ELSE LET x == families[f + 1][k] IN
         IF x.index = -1 THEN FamilyRegexes(f, k + 1)
         ELSE IF x.nest > f /\ x.nest < Len(families)
         THEN <<x.regex>> \o FamilyRegexes(x.nest, 1) \o FamilyRegexes(f, k + 1)
         ELSE <<x.regex>> \o FamilyRegexes(f, k + 1)

\* The rules that open a nested family, as <<family, position, nest>>.
Openers ==
    {o \in UNION {{<<f, k, families[f + 1][k].nest>> : k \in 1..Len(families[f + 1])} :
                    f \in 0..(Len(families) - 1)} : o[3] # -1}

\* C18: after a successful parse family 0 is the top level and the families
\* are numbered in the order their opening rules are met in the source; in
\* every family the rules carry the indices 0, 1, ..., k-1 in source order
\* and are followed by exactly one rule with index -1, the last element; the
\* array declared for the family has one element for each numbered rule.
C18_FamilyNumbering ==
    pphase = "done" =>
        /\ Len(families) >= 1
        /\ families[1][Len(families[1])].code = EndCode
        /\ \A f \in 1..Len(families) :
              /\ Len(families[f]) >= 1
              /\ families[f][Len(families[f])].index = -1
              /\ \A k \in 1..(Len(families[f]) - 1) : families[f][k].index = k - 1
        /\ \A f \in 1..(Len(families) - 1) :
              /\ Cardinality({o \in Openers : o[3] = f}) = 1
              /\ \A o \in Openers : o[3] = f => o[1] < f
        /\ \A o1 \in Openers : \A o2 \in Openers :
              (o1[1] = o2[1] /\ o1[2] < o2[2]) => o1[3] < o2[3]
        /\ FamilyRegexes(0, 1) = SourceRegexes(specIn, 1)
        /\ \A f \in 1..Len(families) :
              \E k \in 1..Len(decls) :
                  /\ decls[k] = <<f - 1, Len(families[f]) - 1>>
                  /\ \A k2 \in 1..Len(decls) : decls[k2][1] = f - 1 => k2 = k

\* A successful parse in which a nested family was opened and closed between
\* two rules of family 0.
C18_Witness ==
    /\ pphase = "done"
    /\ Len(families) >= 2
    /\ \E k \in 1..(Len(families[1]) - 2) :
          /\ families[1][k].nest >= 1
          /\ families[1][k + 1].index = k

\* The families of a specification file read off its text with a stack of
\* open families: F[f + 1] lists <<regex, nest>> of the rules between the '<'
\* that opens family f and the matching '>', nest being the number of
\* families met before the '<' of the rule, or -1 for a rule without '<'.
RECURSIVE RefFamilies(_, _, _, _)
RefRule(s, k, F, stack) ==
    LET opens == k + 3 <= Len(s) /\ s[k + 3] = RuneLt
        top == stack[Len(stack)]
        F1 == [F EXCEPT ![top + 1] =
                  Append(@, <<(<<s[k + 1]>>), IF opens THEN Len(F) ELSE -1>>)]
    IN  IF opens THEN RefFamilies(s, k + 3, Append(F1, <<>>), Append(stack, Len(F)))
        ELSE RefFamilies(s, k + 3, F1, stack)
RefFamilies(s, k, F, stack) ==
    IF k + 1 > Len(s) THEN F
    ELSE IF s[k] = 47 /\ s[k + 1] = 47 THEN F
    ELSE IF k + 2 <= Len(s) /\ s[k] = 47 /\ s[k + 2] = 47 THEN RefRule(s, k, F, stack)
    ELSE IF s[k] = RuneGt /\ Len(stack) > 1
    THEN RefFamilies(s, k + 1, F, SubSeq(stack, 1, Len(stack) - 1))
    ELSE RefFamilies(s, k + 1, F, stack)

\* The numbered rules of family f as <<regex, nest>>.
NumberedRules(f) ==
    [k \in 1..(Len(families[f + 1]) - 1) |->
        <<families[f + 1][k].regex, families[f + 1][k].nest>>]

\* C19: after a successful parse the family id written into the nested call
\* of a rule with '<' is the id of the family opened at that rule, and that
\* family holds exactly the rules between the rule and its matching '>'
\* block, for families nested in nested families and for sibling families.
C19_NestedFamilyId ==
    pphase = "done" =>
        /\ Len(families) = Len(RefFamilies(specIn, 1, <<<<>>>>, <<0>>))
        /\ \A f \in 0..(Len(families) - 1) :
              NumberedRules(f) = RefFamilies(specIn, 1, <<<<>>>>, <<0>>)[f + 1]
        /\ \A o \in Openers : o[3] \in 1..(Len(families) - 1)

\* A successful parse with a family nested in a nested family and with two
\* sibling families.
C19_Witness ==
    /\ pphase = "done"
    /\ \E o \in Openers : o[1] >= 1
    /\ \E o1 \in Openers : \E o2 \in Openers : o1[1] = o2[1] /\ o1[2] < o2[2]

\* The first rune of the specification file from position k on that is not
\* white space (0: none).
RECURSIVE NextNonBlank(_, _)
NextNonBlank(s, k) ==
    IF k > Len(s) THEN 0
    ELSE IF s[k] \in {32, 10, 9, 13} THEN NextNonBlank(s, k + 1)
    ELSE s[k]

\* c is a brace-balanced action: it starts with '{', its braces balance at
\* its end and at no rune before.
Braces(c, m, b) == Cardinality({k \in 1..m : c[k] = b})
Balanced(c) ==
    /\ Len(c) >= 2
    /\ c[1] = RuneLBrace
    /\ Braces(c, Len(c), RuneLBrace) = Braces(c, Len(c), RuneRBrace)
    /\ \A m \in 1..(Len(c) - 1) : Braces(c, m, RuneLBrace) > Braces(c, m, RuneRBrace)

\* C20: a rule block that begins with '>' raises the unmatched '>' error
\* while family 0 is parsed; while a nested family is parsed it either panics
\* for want of an action or appends to that family one rule with index -1
\* whose code is the brace-balanced action that follows, changes no other
\* family, and returns to the enclosing family, whose next rule index is the
\* number of rules it holds.
C20_CloseBlock ==
    [][(pphase = "loop" /\ NextNonBlank(specIn, inpos + 1) = RuneGt) =>
            /\ Frame.family = 0 => (pphase' = "error" /\ perr' = "ErrUnmatchedRAngle")
            /\ Frame.family # 0 =>
                  \/ /\ pphase' = "error"
                     /\ perr' \in {"ErrUnexpectedEOF", "ErrExpectedLBrace", "ErrUnmatchedLBrace"}
                  \/ /\ pphase' = "loop"
                     /\ Len(families') = Len(families)
                     /\ \A g \in 1..Len(families) :
                           g # Frame.family + 1 => families'[g] = families[g]
                     /\ Len(families'[Frame.family + 1]) = Len(families[Frame.family + 1]) + 1
                     /\ SubSeq(families'[Frame.family + 1], 1, Len(families[Frame.family + 1]))
                           = families[Frame.family + 1]
                     /\ LET x == families'[Frame.family + 1][Len(families'[Frame.family + 1])]
                        IN  /\ x.index = -1
                            /\ Balanced(x.code)
                            /\ x.code = SubSeq(specIn, inpos' - Len(x.code) + 1, inpos')
                     /\ frames' = SubSeq(frames, 1, Len(frames) - 1)
                     /\ frames'[Len(frames')].rulen =
                           Len(families'[frames'[Len(frames')].family + 1])]_vars

\* A nested family was closed by a '>' block and the parse is back in
\* family 0, which already holds a rule.
C20_Witness ==
    /\ pphase = "loop"
    /\ Len(frames) = 1
    /\ Len(families) >= 2
    /\ families[1] # <<>>
    /\ \E f \in 2..Len(families) :
          /\ families[f] # <<>>
          /\ families[f][Len(families[f])].index = -1
          /\ Balanced(families[f][Len(families[f])].code)


====
